---- MODULE Spec2Model ----
(***************************************************************************)
(* Model of jota-one/hypercontent: the content generation pipeline         *)
(* (cms/modules/generate-content/index.ts: json2mdc, resolveInputWith-     *)
(* Entity, buildPages, generateContent) and the navigation reconstruction  *)
(* (cms/composables/useHcNavigation.ts: _loadNavigation).                  *)
(*                                                                         *)
(* JavaScript strings are TLA+ strings, handled character by character     *)
(* with Len, SubSeq and \o.  JavaScript's undefined and null are the       *)
(* records Undefined and Null; a string result is [t |-> "str", v |-> s].  *)
(***************************************************************************)
EXTENDS Integers, Sequences, FiniteSets, TLC

(***************************************************************************)
(* Bounds of the model                                                     *)
(***************************************************************************)
MaxNav == 2
MaxEntities == 2
MaxLangs == 2
MaxNavPages == 4
MaxBlocks == 2
MaxDepth == 2
MaxParams == 2

(***************************************************************************)
(* JavaScript string primitives used by the sources                        *)
(***************************************************************************)
Ch(s, i) == SubSeq(s, i, i)

LowerChars ==
  {"a","b","c","d","e","f","g","h","i","j","k","l","m",
   "n","o","p","q","r","s","t","u","v","w","x","y","z"}

UpperChars ==
  {"A","B","C","D","E","F","G","H","I","J","K","L","M",
   "N","O","P","Q","R","S","T","U","V","W","X","Y","Z"}

DigitChars == {"0","1","2","3","4","5","6","7","8","9"}

\* \w of a JavaScript regular expression
WordChars == LowerChars \cup UpperChars \cup DigitChars \cup {"_"}

\* the character class of PATH_CHECK_PATTERN, /[/:.a-z0-9-_]+/gm
PATH_CHECK_CLASS == {"/", ":", "."} \cup LowerChars \cup DigitChars \cup {"-", "_"}

\* last index of the maximal run of characters of set that starts at i
\* (i - 1 when s[i] is not in set)
RECURSIVE RunEnd(_, _, _)
RunEnd(s, i, set) ==
  IF i <= Len(s) /\ Ch(s, i) \in set THEN RunEnd(s, i + 1, set) ELSE i - 1

\* str.match(/[class]+/g): all maximal runs, left to right (<< >> models null)
RECURSIVE MatchClassFrom(_, _, _)
MatchClassFrom(s, i, set) ==
  IF i > Len(s) THEN << >>
  ELSE IF Ch(s, i) \in set
       THEN LET e == RunEnd(s, i, set)
            IN  << SubSeq(s, i, e) >> \o MatchClassFrom(s, e + 1, set)
       ELSE MatchClassFrom(s, i + 1, set)

\* a path check whose class lacks the underscore
PathCheckNoUnderscore(path) == MatchClassFrom(path, 1, PATH_CHECK_CLASS \ {"_"})

\* page.path.match(PATH_CHECK_PATTERN)
PathCheck(path) == MatchClassFrom(path, 1, PATH_CHECK_CLASS)

\* s.indexOf(t, from) with 1-based positions, 0 when t does not occur
RECURSIVE IndexOfFrom(_, _, _)
IndexOfFrom(s, t, from) ==
  IF from + Len(t) - 1 > Len(s) THEN 0
  ELSE IF SubSeq(s, from, from + Len(t) - 1) = t THEN from
       ELSE IndexOfFrom(s, t, from + 1)

\* s.includes(t)
Includes(s, t) == IndexOfFrom(s, t, 1) # 0

\* s.startsWith(t)
StartsWith(s, t) == Len(t) <= Len(s) /\ SubSeq(s, 1, Len(t)) = t

\* s.replace(t, r) for a string pattern t: the first occurrence only
ReplaceFirst(s, t, r) ==
  LET p == IndexOfFrom(s, t, 1)
  IN  IF p = 0 THEN s
      ELSE SubSeq(s, 1, p - 1) \o r \o SubSeq(s, p + Len(t), Len(s))

\* s.replaceAll(t, r) for a non-empty string pattern t
RECURSIVE ReplaceAllFrom(_, _, _, _)
ReplaceAllFrom(s, t, r, from) ==
  LET p == IndexOfFrom(s, t, from)
  IN  IF p = 0 THEN SubSeq(s, from, Len(s))
      ELSE SubSeq(s, from, p - 1) \o r \o ReplaceAllFrom(s, t, r, p + Len(t))

ReplaceAll(s, t, r) == ReplaceAllFrom(s, t, r, 1)

\* s.split(sep) for a one-character separator
RECURSIVE SplitFrom(_, _, _)
SplitFrom(s, sep, from) ==
  LET p == IndexOfFrom(s, sep, from)
  IN  IF p = 0 THEN << SubSeq(s, from, Len(s)) >>
      ELSE << SubSeq(s, from, p - 1) >> \o SplitFrom(s, sep, p + 1)

Split(s, sep) == SplitFrom(s, sep, 1)

\* array.join(sep)
RECURSIVE Join(_, _)
Join(parts, sep) ==
  IF parts = << >> THEN ""
  ELSE IF Len(parts) = 1 THEN parts[1]
       ELSE parts[1] \o sep \o Join(Tail(parts), sep)

\* array.filter(p => p) on an array of strings
RECURSIVE FilterNonEmpty(_)
FilterNonEmpty(parts) ==
  IF parts = << >> THEN << >>
  ELSE (IF parts[1] = "" THEN << >> ELSE << parts[1] >>) \o FilterNonEmpty(Tail(parts))

\* template-literal conversion of a non-negative integer
DigitStr(d) == Ch("0123456789", d + 1)

RECURSIVE NumStr(_)
NumStr(n) == IF n < 10 THEN DigitStr(n) ELSE NumStr(n \div 10) \o DigitStr(n % 10)

(***************************************************************************)
(* DYNAMIC_ENTITY_PLACEHOLDER_PATTERN, /:(\w+)\.(\w+)/gim                   *)
(***************************************************************************)
\* end of the match that starts at p, 0 when there is none.  Both groups are
\* greedy runs of \w, which cannot contain the dot, so no backtracking
\* changes the outcome.
PlaceholderEnd(s, p) ==
  IF p > Len(s) \/ Ch(s, p) # ":" THEN 0
  ELSE LET e1 == RunEnd(s, p + 1, WordChars)
       IN  IF e1 < p + 1 \/ e1 + 1 > Len(s) \/ Ch(s, e1 + 1) # "." THEN 0
           ELSE LET e2 == RunEnd(s, e1 + 2, WordChars)
                IN  IF e2 < e1 + 2 THEN 0 ELSE e2

\* input.match(PATTERN): the matched texts, left to right (<< >> models null)
RECURSIVE PlaceholderMatchesFrom(_, _)
PlaceholderMatchesFrom(s, p) ==
  IF p > Len(s) THEN << >>
  ELSE LET e == PlaceholderEnd(s, p)
       IN  IF e = 0 THEN PlaceholderMatchesFrom(s, p + 1)
           ELSE << SubSeq(s, p, e) >> \o PlaceholderMatchesFrom(s, e + 1)

PlaceholderMatches(s) == PlaceholderMatchesFrom(s, 1)

\* sortedPath.replace(PATTERN, (_, g1, g2) => `__${g1}.${g2}__`)
RECURSIVE LocalSortedFrom(_, _)
LocalSortedFrom(s, p) ==
  IF p > Len(s) THEN ""
  ELSE LET e == PlaceholderEnd(s, p)
       IN  IF e = 0 THEN Ch(s, p) \o LocalSortedFrom(s, p + 1)
           ELSE "__" \o SubSeq(s, p + 1, e) \o "__" \o LocalSortedFrom(s, e + 1)

LocalSortedPath(sortedPath) == LocalSortedFrom(sortedPath, 1)

(***************************************************************************)
(* JavaScript values                                                       *)
(***************************************************************************)
Undefined == [t |-> "undefined", v |-> ""]
Null == [t |-> "null", v |-> ""]
Str(s) == [t |-> "str", v |-> s]
Bool(s) == [t |-> "bool", v |-> s]
Num(s) == [t |-> "num", v |-> s]
\* an object or array, carried as its JSON.stringify text
Obj(json) == [t |-> "obj", v |-> json]

\* `${value}`, and the conversion made by string concatenation
ToStr(val) ==
  CASE val.t = "undefined" -> "undefined"
    [] val.t = "null" -> "null"
    [] OTHER -> val.v

\* typeof value === 'object'
TypeofObject(val) == val.t \in {"obj", "null"}

UpperString == "ABCDEFGHIJKLMNOPQRSTUVWXYZ"
LowerString == "abcdefghijklmnopqrstuvwxyz"

LowerChar(c) ==
  LET p == IndexOfFrom(UpperString, c, 1)
  IN  IF c \in UpperChars THEN Ch(LowerString, p) ELSE c

\* s.toLowerCase()
RECURSIVE ToLowerCase(_)
ToLowerCase(s) == IF s = "" THEN "" ELSE LowerChar(Ch(s, 1)) \o ToLowerCase(Tail(s))

\* !isNaN(parseInt(s)): leading white space and one sign are skipped, then a
\* decimal digit must come, or "0x" and a hexadecimal digit
HexChars == DigitChars \cup {"a","b","c","d","e","f","A","B","C","D","E","F"}

RECURSIVE SkipSpaces(_)
SkipSpaces(s) ==
  IF s # "" /\ Ch(s, 1) \in {" ", "\t", "\n"} THEN SkipSpaces(Tail(s)) ELSE s

ParseIntIsNumber(s) ==
  LET a == SkipSpaces(s)
      b == IF a # "" /\ Ch(a, 1) \in {"+", "-"} THEN Tail(a) ELSE a
  IN  IF Len(b) >= 2 /\ SubSeq(b, 1, 2) \in {"0x", "0X"}
      THEN Len(b) >= 3 /\ Ch(b, 3) \in HexChars
      ELSE b # "" /\ Ch(b, 1) \in DigitChars

(***************************************************************************)
(* Block serializer                                                        *)
(***************************************************************************)
\* pascalToKebab of common/helpers: a hyphen before every capital that is
\* not the first character, everything in lower case
RECURSIVE KebabFrom(_, _)
KebabFrom(s, i) ==
  IF i > Len(s) THEN ""
  ELSE (IF i > 1 /\ Ch(s, i) \in UpperChars THEN "-" ELSE "")
       \o LowerChar(Ch(s, i)) \o KebabFrom(s, i + 1)

pascalToKebab(type) == KebabFrom(type, 1)

\* ''.padEnd(n, ':') and ''.padStart(n, pad): the pad string is repeated and
\* cut so that the result has n characters
RECURSIVE PadTo(_, _, _)
PadTo(acc, n, pad) ==
  IF Len(acc) >= n THEN SubSeq(acc, 1, n) ELSE PadTo(acc \o pad, n, pad)

isInlineComponent(block) == block.children = << >>

\* a component name whose fence is one colon short
mdComponentNameShort(block, depth) ==
  LET prefix == IF isInlineComponent(block) THEN ":" ELSE PadTo("", depth + 1, ":")
  IN  prefix \o pascalToKebab(block.type.v)

mdComponentName(block, depth) ==
  LET prefix == IF isInlineComponent(block) THEN ":" ELSE PadTo("", depth + 2, ":")
  IN  prefix \o pascalToKebab(block.type.v)

indent(depth) == PadTo("", depth, "  ")

isBooleanOrNumber(value) ==
  /\ ~TypeofObject(value)
  /\ \/ ToLowerCase(ToStr(value)) \in {"true", "false"}
     \/ ParseIntIsNumber(ToStr(value))

\* one property of processBlockProps
componentProp(key, value) ==
  (IF TypeofObject(value) THEN ":" ELSE "")
  \o (IF isBooleanOrNumber(value)
      THEN ":" \o key \o "=" \o ToStr(value)
      ELSE key \o "="
           \o (IF TypeofObject(value) THEN "'" ELSE "\"")
           \o ToStr(value)
           \o (IF TypeofObject(value) THEN "'" ELSE "\""))

RECURSIVE componentProps(_)
componentProps(props) ==
  IF props = << >> THEN << >>
  ELSE << componentProp(props[1].key, props[1].value) >> \o componentProps(Tail(props))

processBlockProps(block) ==
  IF block.props = << >> THEN ""
  ELSE "{" \o Join(componentProps(block.props), " ") \o "}"

\* the lines of one block; processChildren is the flatMap over the children
RECURSIVE processBlock(_, _)
RECURSIVE processChildren(_, _)
processBlock(block, depth) ==
  IF block.type = Undefined /\ block.text # ""
  THEN << block.text >>
  ELSE LET first == indent(depth) \o mdComponentName(block, depth)
                      \o processBlockProps(block)
       IN  IF isInlineComponent(block) THEN << first >>
           ELSE << first >> \o processChildren(block.children, depth + 1)
                \o << indent(depth) \o PadTo("", depth + 2, ":") >>

processChildren(children, depth) ==
  IF children = << >> THEN << >>
  ELSE processBlock(children[1], depth) \o processChildren(Tail(children), depth)

\* a content object; absent content is [t |-> "undefined"] or [t |-> "null"]
Content(state, blocks) == [t |-> "obj", state |-> state, blocks |-> blocks]
NoContent(t) == [t |-> t, state |-> "", blocks |-> << >>]

\* a dynamic content entity definition; NoDef models the undefined argument
NoDef == [given |-> FALSE, name |-> "", field |-> Undefined]
Def(name, field) == [given |-> TRUE, name |-> name, field |-> field]

\* a json2mdc that serializes whatever the state is
json2mdcAnyState(content, def) ==
  IF content.t # "obj" THEN Undefined
  ELSE Str(Join(processChildren(content.blocks, 0), "\n"))

json2mdc(content, def) ==
  IF content.t # "obj" THEN Undefined
  ELSE IF content.state # "published" THEN Undefined
  ELSE Str(Join(
         (IF def.given
          THEN << "::hc-dynamic-content{entity=\"" \o def.name
                  \o "\" field=\"" \o ToStr(def.field) \o "\"}" >>
          ELSE << >>)
         \o processChildren(content.blocks, 0)
         \o (IF def.given THEN << "::" >> ELSE << >>),
         "\n"))

(***************************************************************************)
(* Entity placeholder expansion                                            *)
(***************************************************************************)
\* entity[entityProp] as replaceAll converts it: a missing field reads as
\* undefined
EntityProp(entity, prop) ==
  IF prop \in DOMAIN entity THEN entity[prop] ELSE "undefined"

\* the loop of resolveInputWithEntity over the remaining matches
RECURSIVE resolveLoop(_, _, _, _, _)
resolveLoop(matches, resolvedInput, input, entityName, entity) ==
  IF matches = << >> THEN resolvedInput
  ELSE LET placeHolder == matches[1]
           entityProp == ReplaceFirst(placeHolder, ":" \o entityName \o ".", "")
       IN  resolveLoop(Tail(matches),
             ReplaceAll(IF resolvedInput # "" THEN resolvedInput ELSE input,
                        placeHolder, EntityProp(entity, entityProp)),
             input, entityName, entity)

resolveInputWithEntity(input, entityName, entity) ==
  LET placeHolderMatches == PlaceholderMatches(input)
  IN  IF placeHolderMatches = << >> THEN input
      ELSE resolveLoop(placeHolderMatches, "", input, entityName, entity)

\* p.slice(1).split('.') destructured into [name, field]
SegmentDef(p) ==
  LET parts == Split(SubSeq(p, 2, Len(p)), ".")
  IN  [name |-> parts[1],
       field |-> IF Len(parts) >= 2 THEN Str(parts[2]) ELSE Undefined]

\* the reduce of getEntityDefFromPath: the last segment with a colon wins
RECURSIVE entityDefReduce(_, _)
entityDefReduce(segments, acc) ==
  IF segments = << >> THEN acc
  ELSE entityDefReduce(Tail(segments),
         IF Includes(segments[1], ":") THEN SegmentDef(segments[1]) ELSE acc)

getEntityDefFromPath(pagePath) ==
  entityDefReduce(Split(pagePath, "/"), [name |-> "", field |-> Str("")])

(***************************************************************************)
(* Pages, entities and contents the model draws its inputs from            *)
(***************************************************************************)
\* an entity record: its fields, and its JSON.stringify text
Entity(fields, json) == [fields |-> fields, json |-> json]

NoEntity == [bound |-> FALSE, name |-> "", value |-> Entity([f \in {} |-> ""], "")]
Bound(name, entity) == [bound |-> TRUE, name |-> name, value |-> entity]

\* a navigation entry as the navigation endpoint returns it; the fields of
\* ImportingPage are not set yet
Page(id, path, sortedPath, label, sort, show) ==
  [id |-> id, path |-> path, sortedPath |-> sortedPath, label |-> label,
   sort |-> sort, show |-> show, access |-> "",
   hasDynamicContent |-> FALSE, entity |-> NoEntity,
   localSortedPath |-> Undefined, localPath |-> Undefined]

Lausanne ==
  Entity([s |-> "lausanne", sx |-> "vd", l |-> "Lausanne"],
         "{\"s\":\"lausanne\",\"sx\":\"vd\",\"l\":\"Lausanne\"}")
Bern ==
  Entity([s |-> "bern", sx |-> "be", l |-> "Bern"],
         "{\"s\":\"bern\",\"sx\":\"be\",\"l\":\"Bern\"}")

EntityPool == {Lausanne, Bern}

\* sequences without repetition of at most n elements of S
SeqsUpTo(S, n) ==
  UNION {{q \in [1..k -> S] : \A a, b \in 1..k : a # b => q[a] # q[b]} : k \in 0..n}

\* what resolver.resolve(resolver.response) can return
EntityLists == SeqsUpTo(EntityPool, MaxEntities)

\* the dynamicPageResolvers argument: no resolver, or one for entity "c"
ResolverSets ==
  {[n \in {} |-> << >>]} \cup {[n \in {"c"} |-> es] : es \in EntityLists}

Home(lang) == Page(1, "/" \o lang, "/" \o lang, "Home", 0, "always")
News(lang) == Page(2, "/" \o lang \o "/n", "/" \o lang \o "/1.n", "News", 0, "never")
Post(lang) ==
  Page(3, "/" \o lang \o "/n/p", "/" \o lang \o "/1.n/1.p", "Post", 0, "always")
Letter(lang) ==
  Page(4, "/" \o lang \o "/n_x-1", "/" \o lang \o "/1.nx", "Letter", 0, "always")
City(lang) ==
  Page(5, "/" \o lang \o "/:c.s", "/" \o lang \o "/2.:c.s", ":c.l", 1, "always")
CityDetail(lang) ==
  Page(6, "/" \o lang \o "/:c.s/d", "/" \o lang \o "/2.:c.s/1.d", "D :c.l", 0, "never")
CityCode(lang) ==
  Page(7, "/" \o lang \o "/x/:c.s", "/" \o lang \o "/3.x/1.:c.s", ":c.s :c.sx", 0, "always")
BadCase(lang) ==
  Page(8, "/" \o lang \o "/aB", "/" \o lang \o "/4.aB", "Bad", 3, "always")
NoPath(lang) == Page(9, "", "/" \o lang \o "/5.", "Empty", 4, "always")
Nested(lang) ==
  Page(10, "/" \o lang \o "/d/" \o lang \o "/n",
       "/" \o lang \o "/2.d/" \o lang \o "/1.n", "Nested", 0, "always")

Region(lang) ==
  Page(11, "/" \o lang \o "/:r.s", "/" \o lang \o "/6.:r.s", ":r.l", 5, "always")

PagePool(lang) ==
  {Home(lang), News(lang), Post(lang), Letter(lang), City(lang), CityDetail(lang),
   CityCode(lang), BadCase(lang), NoPath(lang), Nested(lang), Region(lang)}

NavLists(lang) == SeqsUpTo(PagePool(lang), MaxNav)

\* blocks: raw text has no type; a component has a type, props and children
RawBlock(text) == [type |-> Undefined, text |-> text, props |-> << >>, children |-> << >>]
Component(type, props, children) ==
  [type |-> Str(type), text |-> "", props |-> props, children |-> children]
Prop(key, value) == [key |-> key, value |-> value]

TitleBlock == Component("PageTitle", << Prop("text", Str(":c.l")) >>, << >>)

\* what the content endpoint can answer for a page
PageContents ==
  {NoContent("undefined"), NoContent("null"),
   Content("draft", << TitleBlock >>),
   Content("published", << TitleBlock, RawBlock("hello :c.s") >>)}

\* values of the variables of an operation that is not running
NoParent == [kind |-> "null", idx |-> 0,
             node |-> [pageId |-> 0, path |-> "", label |-> "", sort |-> 0, show |-> "",
                       hasChildren |-> FALSE, children |-> << >>]]
NoHome == [pageId |-> 0, path |-> ""]
NotCalled == [t |-> "not called", v |-> ""]

(***************************************************************************)
(* State                                                                   *)
(***************************************************************************)
VARIABLES
  pc,                    \* where the run is
  lang,                  \* code of the language being generated
  navigation,            \* the navigation argument of buildPages
  dynamicPageResolvers,  \* entity name -> entities its resolver returns
  pages,                 \* the pages array of buildPages
  i,                     \* index of the second loop of buildPages (0-based)
  error,                 \* the exception that ended the run, if any
  writes,                \* writeFile calls so far: file, content, language, page
  fetches,               \* content fetches so far: url, response, language, page
  customContentApiEndpoints,  \* the option of the same name
  langs,                 \* the language codes the lang endpoint returned
  langIdx,               \* number of languages already generated
  pageLinks              \* the lines of the site index

VARIABLES
  navPc,                 \* where _loadNavigation is
  pageList,              \* the body of the navigation document, or absent
  index,                 \* index of the loop of _loadNavigation (0-based)
  navigationTmp,         \* the local array _navigation
  parent,                \* the parent cursor
  navigationValue,       \* navigation.value
  homePage,              \* homePage.value
  pagesValue             \* pages.value: the ids of the pages it holds

VARIABLES
  mdcContent,            \* the content argument of json2mdc
  mdcDef,                \* its dynamicPageEntityDef argument
  mdcResult              \* what the call returned

VARIABLES
  fnPc,                  \* "idle", or "call"/"done" around the call of a function
  blkBlock,              \* the block argument of processBlock
  blkDepth,              \* its depth argument
  blkPropsPart,          \* the local propsPart of the call
  blkLines,              \* the lines the call returned
  rieInput,              \* the input argument of resolveInputWithEntity
  rieEntityName,         \* its entityName argument
  rieEntity,             \* its entity argument
  rieResult,             \* what the call returned
  rpInput,               \* the input argument of resolvePlaceholders
  rpValues,              \* its values argument
  rpResult               \* what the call returned

bpVars == << pc, lang, navigation, dynamicPageResolvers, pages, i, error, writes, fetches >>
genVars == << customContentApiEndpoints, langs, langIdx, pageLinks >>
navVars == << navPc, pageList, index, navigationTmp, parent, navigationValue, homePage,
              pagesValue >>
mdcVars == << mdcContent, mdcDef, mdcResult >>
blkVars == << blkBlock, blkDepth, blkPropsPart, blkLines >>
rieVars == << rieInput, rieEntityName, rieEntity, rieResult >>
rpVars == << rpInput, rpValues, rpResult >>
fnVars == << fnPc, blkVars, rieVars, rpVars >>

\* no function is being applied on its own
FnIdle ==
  /\ fnPc = "idle"
  /\ blkBlock = RawBlock("")
  /\ blkDepth = 0
  /\ blkPropsPart = ""
  /\ blkLines = << >>
  /\ rieInput = ""
  /\ rieEntityName = ""
  /\ rieEntity = [f \in {} |-> ""]
  /\ rieResult = ""
  /\ rpInput = [t |-> "undefined", v |-> "", entries |-> << >>]
  /\ rpValues = [f \in {} |-> ""]
  /\ rpResult = Undefined

NoError == [kind |-> "", message |-> "", path |-> ""]

\* config.contentBasePath and config.apiBaseUrl
contentBasePath == << "content" >>
apiBaseUrl == "http://api"

\* the file that dumpFile(content, path, fileExtension) writes
dumpFilePath(path, fileExtension) ==
  Join(contentBasePath \o FilterNonEmpty(Split(path \o "." \o fileExtension, "/")), "/")

\* the url fetchEndpoint builds for the content of a page
\* (HC_ENDPOINTS.content.detail.path is resolved with the page)
contentDetailUrl(page) == apiBaseUrl \o "/content?path=" \o page.path

getFrontMatter(page, apiUrl) ==
  "---\n"
  \o (IF page.show # "always" THEN "navigation: false\n" ELSE "")
  \o "access: " \o (IF page.access # "" THEN page.access ELSE "all") \o "\n"
  \o "apiUrl: " \o apiUrl \o "\n"
  \o "---\n\n"

(***************************************************************************)
(* buildPages, first loop: expansion of the navigation                     *)
(***************************************************************************)
resolvePageWithEntity(page, entityName, entity) ==
  [page EXCEPT
     !.label = resolveInputWithEntity(page.label, entityName, entity.fields),
     !.path = resolveInputWithEntity(page.path, entityName, entity.fields),
     !.sortedPath = resolveInputWithEntity(page.sortedPath, entityName, entity.fields),
     !.entity = Bound(entityName, entity)]

\* for (const entity of entities) pages.push(resolvePageWithEntity(page, entity))
RECURSIVE expandWith(_, _, _)
expandWith(page, entityName, entities) ==
  IF entities = << >> THEN << >>
  ELSE << resolvePageWithEntity(page, entityName, entities[1]) >>
       \o expandWith(page, entityName, Tail(entities))

\* an expansion that drops a template that has no resolver
expandEntryDropUnresolved(entry, resolvers) ==
  LET page == [entry EXCEPT !.hasDynamicContent = FALSE]
      entityName == getEntityDefFromPath(page.path).name
  IN  IF ~Includes(page.path, ":") THEN << page >>
      ELSE IF entityName \in DOMAIN resolvers
           THEN expandWith(page, entityName, resolvers[entityName])
           ELSE << >>

\* the pages one navigation entry contributes
expandEntry(entry, resolvers) ==
  LET page == [entry EXCEPT !.hasDynamicContent = FALSE]
      entityName == getEntityDefFromPath(page.path).name
  IN  IF ~Includes(page.path, ":") THEN << page >>
      ELSE IF entityName \in DOMAIN resolvers
           THEN expandWith(page, entityName, resolvers[entityName])
           ELSE << [page EXCEPT !.hasDynamicContent = TRUE] >>

RECURSIVE expandAll(_, _)
expandAll(nav, resolvers) ==
  IF nav = << >> THEN << >>
  ELSE expandEntry(nav[1], resolvers) \o expandAll(Tail(nav), resolvers)

\* the entries of the navigation array are the objects the loop marks
markEntry(entry, resolvers) ==
  [entry EXCEPT !.hasDynamicContent =
     Includes(entry.path, ":")
     /\ getEntityDefFromPath(entry.path).name \notin DOMAIN resolvers]

RECURSIVE markAll(_, _)
markAll(nav, resolvers) ==
  IF nav = << >> THEN << >>
  ELSE << markEntry(nav[1], resolvers) >> \o markAll(Tail(nav), resolvers)

BuildPagesExpand ==
  /\ pc = "expand"
  /\ pages' = expandAll(navigation, dynamicPageResolvers)
  /\ navigation' = markAll(navigation, dynamicPageResolvers)
  /\ i' = 0
  /\ pc' = "write"
  /\ UNCHANGED << lang, dynamicPageResolvers, error, writes, fetches >>
  /\ UNCHANGED << genVars, navVars, mdcVars, fnVars >>

(***************************************************************************)
(* buildPages, second loop: one page per step                              *)
(***************************************************************************)
\* The content of a page bound to an entity goes through JSON.stringify,
\* resolveInputWithEntity, replaceAll of the escaped ":name" token and
\* JSON.parse.  The matches are those of the whole JSON text, in the order
\* state, then per block type, text, props, children; no placeholder spans
\* two strings of the JSON text, so every replaceAll acts string by string.
RECURSIVE blockStrings(_)
RECURSIVE blocksStrings(_)
RECURSIVE propStrings(_)
propStrings(props) ==
  IF props = << >> THEN << >>
  ELSE << props[1].value.v >> \o propStrings(Tail(props))

blockStrings(block) ==
  << block.text >> \o propStrings(block.props) \o blocksStrings(block.children)

blocksStrings(blocks) ==
  IF blocks = << >> THEN << >>
  ELSE blockStrings(blocks[1]) \o blocksStrings(Tail(blocks))

RECURSIVE allMatches(_)
allMatches(strings) ==
  IF strings = << >> THEN << >>
  ELSE PlaceholderMatches(strings[1]) \o allMatches(Tail(strings))

RECURSIVE replaceEach(_, _, _, _)
replaceEach(str, matches, entityName, entity) ==
  IF matches = << >> THEN str
  ELSE replaceEach(
         ReplaceAll(str, matches[1],
           EntityProp(entity.fields,
                      ReplaceFirst(matches[1], ":" \o entityName \o ".", ""))),
         Tail(matches), entityName, entity)

resolveString(str, matches, entityName, entity) ==
  ReplaceAll(replaceEach(str, matches, entityName, entity),
             "\":" \o entityName \o "\"", entity.json)

RECURSIVE resolveProps(_, _, _, _)
resolveProps(props, matches, entityName, entity) ==
  IF props = << >> THEN << >>
  ELSE << [props[1] EXCEPT !.value.v =
             resolveString(props[1].value.v, matches, entityName, entity)] >>
       \o resolveProps(Tail(props), matches, entityName, entity)

RECURSIVE resolveBlock(_, _, _, _)
RECURSIVE resolveBlocks(_, _, _, _)
resolveBlock(block, matches, entityName, entity) ==
  [block EXCEPT
     !.text = resolveString(block.text, matches, entityName, entity),
     !.props = resolveProps(block.props, matches, entityName, entity),
     !.children = resolveBlocks(block.children, matches, entityName, entity)]

resolveBlocks(blocks, matches, entityName, entity) ==
  IF blocks = << >> THEN << >>
  ELSE << resolveBlock(blocks[1], matches, entityName, entity) >>
       \o resolveBlocks(Tail(blocks), matches, entityName, entity)

resolveContent(content, entityName, entity) ==
  IF content.t # "obj" THEN content
  ELSE [content EXCEPT !.blocks =
          resolveBlocks(content.blocks, allMatches(blocksStrings(content.blocks)),
                        entityName, entity)]

\* the path check of a page: TRUE when buildPages throws
pathCheckFails(path) ==
  LET pathCheck == PathCheck(path)
  IN  IF pathCheck = << >> THEN TRUE ELSE pathCheck[1] # path

pathError(path) ==
  [kind |-> "Error",
   message |-> "Page path " \o path
     \o " contains invalid character(s) => path check pattern: /[/:.a-z0-9-_]+/gm",
   path |-> path]

\* const nextPage = i < navigation.length && navigation[i + 1], and the
\* truthiness of nextPage && nextPage.sortedPath.includes(page.sortedPath)
createDir(nav, idx, page) ==
  /\ idx < Len(nav)
  /\ idx + 2 <= Len(nav)
  /\ Includes(nav[idx + 2].sortedPath, page.sortedPath)

\* the dynamicPageEntityDef argument json2mdc gets
entityDefArg(page) ==
  IF page.hasDynamicContent
  THEN LET d == getEntityDefFromPath(page.path) IN Def(d.name, d.field)
  ELSE NoDef

\* mdContent: the front matter concatenated with what json2mdc returns
mdContentOf(page, pageApiUrl, content) ==
  getFrontMatter(page, pageApiUrl) \o ToStr(json2mdc(content, entityDefArg(page)))

\* page.localPath.replace(`/${page.sort + 1}.`, '/').replace('/0.index', '')
finalLocalPath(localPath, sort) ==
  ReplaceFirst(ReplaceFirst(localPath, "/" \o NumStr(sort + 1) \o ".", "/"),
               "/0.index", "")

WriteRec(file, content, page) ==
  [file |-> file, content |-> Str(content), lang |-> lang, page |-> page]

\* a path check that skips the offending page and goes on
PageSkips ==
  /\ pc = "write"
  /\ i < Len(pages)
  /\ pathCheckFails(pages[i + 1].path)
  /\ i' = i + 1
  /\ UNCHANGED << pc, error, lang, navigation, dynamicPageResolvers, pages, writes, fetches >>
  /\ UNCHANGED << genVars, navVars, mdcVars, fnVars >>

\* the page throws at its path check, before anything is fetched
PageThrows ==
  /\ pc = "write"
  /\ i < Len(pages)
  /\ pathCheckFails(pages[i + 1].path)
  /\ error' = pathError(pages[i + 1].path)
  /\ pc' = "error"
  /\ UNCHANGED << lang, navigation, dynamicPageResolvers, pages, i, writes, fetches >>
  /\ UNCHANGED << genVars, navVars, mdcVars, fnVars >>

\* one full iteration for a page whose path passes the check
PageDone(content) ==
  /\ pc = "write"
  /\ i < Len(pages)
  /\ ~pathCheckFails(pages[i + 1].path)
  /\ LET page == pages[i + 1]
         localSortedPath == LocalSortedPath(page.sortedPath)
         pageApiUrl == contentDetailUrl(page)
         fetched == [url |-> pageApiUrl, response |-> content, lang |-> lang, page |-> i + 1]
     IN  /\ fetches' = Append(fetches, fetched)
         /\ IF page.entity.bound /\ content.t = "undefined"
            THEN \* JSON.stringify(undefined) is undefined, and .match throws
                 /\ error' = [kind |-> "TypeError", message |-> "", path |-> page.path]
                 /\ pc' = "error"
                 /\ pages' = [pages EXCEPT ![i + 1].localSortedPath = Str(localSortedPath)]
                 /\ UNCHANGED << i, writes >>
            ELSE LET resolved == IF page.entity.bound
                                 THEN resolveContent(content, page.entity.name, page.entity.value)
                                 ELSE content
                     dir == createDir(navigation, i, page)
                     dirWrites == IF page.show = "never" /\ dir
                                  THEN << WriteRec(dumpFilePath(localSortedPath \o "/_dir", "yml"),
                                                   "navigation: false", i + 1) >>
                                  ELSE << >>
                     localPath == IF dir THEN localSortedPath \o "/0.index" ELSE localSortedPath
                     mdContent == mdContentOf(page, pageApiUrl, resolved)
                     mdWrites == IF mdContent # ""
                                 THEN << WriteRec(dumpFilePath(localPath, "md"), mdContent, i + 1) >>
                                 ELSE << >>
                 IN  /\ writes' = writes \o dirWrites \o mdWrites
                     /\ pages' = [pages EXCEPT
                                    ![i + 1].localSortedPath = Str(localPath),
                                    ![i + 1].localPath = Str(finalLocalPath(localPath, page.sort))]
                     /\ i' = i + 1
                     /\ UNCHANGED << pc, error >>
  /\ UNCHANGED << lang, navigation, dynamicPageResolvers >>
  /\ UNCHANGED << genVars, navVars, mdcVars, fnVars >>

ProcessPage == PageThrows \/ \E content \in PageContents : PageDone(content)

\* buildPages returns its pages
BuildPagesReturn ==
  /\ pc = "write"
  /\ i = Len(pages)
  /\ pc' = "returned"
  /\ UNCHANGED << lang, navigation, dynamicPageResolvers, pages, i, error, writes, fetches >>
  /\ UNCHANGED << genVars, navVars, mdcVars, fnVars >>

(***************************************************************************)
(* buildPages called on any navigation with any resolvers                  *)
(***************************************************************************)
Init ==
  /\ pc = "expand"
  /\ lang = "en"
  /\ navigation \in NavLists("en")
  /\ dynamicPageResolvers \in ResolverSets
  /\ pages = << >>
  /\ i = 0
  /\ error = NoError
  /\ writes = << >>
  /\ fetches = << >>
  /\ customContentApiEndpoints = << >>
  /\ langs = << "en" >>
  /\ langIdx = 0
  /\ pageLinks = << >>
  /\ navPc = "idle"
  /\ pageList = << >>
  /\ index = 0
  /\ navigationTmp = << >>
  /\ parent = NoParent
  /\ navigationValue = << >>
  /\ homePage = NoHome
  /\ pagesValue = {}
  /\ mdcContent = NoContent("undefined")
  /\ mdcDef = NoDef
  /\ mdcResult = NotCalled
  /\ FnIdle

Next == BuildPagesExpand \/ ProcessPage \/ BuildPagesReturn

vars == << bpVars, genVars, navVars, mdcVars, fnVars >>

Spec == Init /\ [][Next]_vars

(***************************************************************************)
(* generateContent                                                         *)
(***************************************************************************)
\* JSON.stringify of a string, of a list of strings, of the filtered labels
\* and of the navigation items (the fields of a page the model carries)
RECURSIVE jsonEscape(_)
jsonEscape(s) ==
  IF s = "" THEN ""
  ELSE (CASE Ch(s, 1) = "\"" -> "\\\""
          [] Ch(s, 1) = "\\" -> "\\\\"
          [] Ch(s, 1) = "\n" -> "\\n"
          [] OTHER -> Ch(s, 1))
       \o jsonEscape(Tail(s))

jsonString(s) == "\"" \o jsonEscape(s) \o "\""

RECURSIVE jsonStrings(_)
jsonStrings(q) ==
  IF q = << >> THEN << >> ELSE << jsonString(q[1]) >> \o jsonStrings(Tail(q))

RECURSIVE jsonLabels(_)
jsonLabels(items) ==
  IF items = << >> THEN << >>
  ELSE << jsonString(items[1].key) \o ":" \o jsonString(items[1].value) >>
       \o jsonLabels(Tail(items))

jsonPage(page) ==
  "{\"id\":" \o NumStr(page.id)
  \o ",\"path\":" \o jsonString(page.path)
  \o ",\"sortedPath\":" \o jsonString(page.sortedPath)
  \o ",\"label\":" \o jsonString(page.label)
  \o ",\"sort\":" \o NumStr(page.sort)
  \o ",\"show\":" \o jsonString(page.show) \o "}"

RECURSIVE jsonPages(_)
jsonPages(ps) ==
  IF ps = << >> THEN << >> ELSE << jsonPage(ps[1]) >> \o jsonPages(Tail(ps))

dumpJsonRec(json, path, code) ==
  [file |-> dumpFilePath(path, "json"), content |-> Str(json), lang |-> code, page |-> 0]

LangCodes == {"en", "fr"}

\* what the lang endpoint can answer
LangLists == SeqsUpTo(LangCodes, MaxLangs) \ {<< >>}

\* what the navigation endpoint can answer for a language
GenPagePool(code) == {News(code), City(code), BadCase(code)}
GenNavLists(code) == SeqsUpTo(GenPagePool(code), MaxNav)

\* the customContentApiEndpoints option: nothing, or a cities endpoint that
\* declares a dynamicPageResolver for entity "c"
CitiesEndpoint ==
  [name |-> "cities", path |-> "/cities",
   dynamicPageResolver |-> [given |-> TRUE, entityName |-> "c"]]
EndpointOptions == {<< >>, << CitiesEndpoint >>}

\* the items of the label endpoint, and the default excluded prefix
LabelItems == << [key |-> "hc_admin", value |-> "Admin"], [key |-> "title", value |-> "Title"] >>
excludeLabelKeyPrefixes == << "hc_" >>

RECURSIVE filteredLabels(_)
filteredLabels(items) ==
  IF items = << >> THEN << >>
  ELSE (IF \E k \in 1..Len(excludeLabelKeyPrefixes) :
             StartsWith(items[1].key, excludeLabelKeyPrefixes[k])
        THEN << >> ELSE << items[1] >>)
       \o filteredLabels(Tail(items))

\* page.label.replace(/:(.*)\./gim, '__$1__.'): from a colon, the greedy
\* group runs to the last dot of the line
RECURSIVE lastDot(_, _, _)
lastDot(s, p, found) ==
  IF p > Len(s) \/ Ch(s, p) = "\n" THEN found
  ELSE lastDot(s, p + 1, IF Ch(s, p) = "." THEN p ELSE found)

RECURSIVE labelFrom(_, _)
labelFrom(s, p) ==
  IF p > Len(s) THEN ""
  ELSE LET d == IF Ch(s, p) = ":" THEN lastDot(s, p + 1, 0) ELSE 0
       IN  IF d = 0 THEN Ch(s, p) \o labelFrom(s, p + 1)
           ELSE "__" \o SubSeq(s, p + 1, d - 1) \o "__." \o labelFrom(s, d + 1)

pageLink(page) ==
  "- [" \o labelFrom(page.label, 1) \o "](" \o ToStr(page.localPath) \o ")"

RECURSIVE pageLinksOf(_)
pageLinksOf(ps) ==
  IF ps = << >> THEN << >> ELSE << pageLink(ps[1]) >> \o pageLinksOf(Tail(ps))

\* the registry generateContent hands to buildPages: the block that
\* registers the resolvers of customContentApiEndpoints is commented out,
\* so the registry is the empty object for every language
registeredResolvers(endpoints) == [n \in {} |-> << >>]

\* rm of the content folder, fetch and dump of the languages
GenStart ==
  /\ pc = "start"
  /\ \E ls \in LangLists : langs' = ls
  /\ writes' = << dumpJsonRec("[" \o Join(jsonStrings(langs'), ",") \o "]",
                               "_hc/api/langs", "") >>
  /\ pageLinks' = << >>
  /\ langIdx' = 0
  /\ pc' = "langs"
  /\ UNCHANGED << lang, navigation, dynamicPageResolvers, pages, i, error, fetches,
                  customContentApiEndpoints >>
  /\ UNCHANGED << navVars, mdcVars, fnVars >>

\* head of the loop over the languages, up to the call of buildPages
LangStart ==
  /\ pc = "langs"
  /\ langIdx < Len(langs)
  /\ LET code == langs[langIdx + 1]
     IN  /\ lang' = code
         /\ \E nav \in GenNavLists(code) :
              /\ navigation' = nav
              /\ writes' = writes \o
                   << dumpJsonRec(
                        "{" \o Join(jsonLabels(filteredLabels(LabelItems)), ",") \o "}",
                        "_hc/api/" \o code \o "/labels", code),
                      dumpJsonRec("[" \o Join(jsonPages(nav), ",") \o "]",
                                  "_hc/api/" \o code \o "/navigation", code) >>
  /\ dynamicPageResolvers' = registeredResolvers(customContentApiEndpoints)
  /\ pages' = << >>
  /\ i' = 0
  /\ pc' = "expand"
  /\ UNCHANGED << error, fetches, customContentApiEndpoints, langs, langIdx, pageLinks >>
  /\ UNCHANGED << navVars, mdcVars, fnVars >>

\* the links of a language take the place of the links gathered so far
LangFinishOverwrite ==
  /\ pc = "returned"
  /\ pageLinks' = pageLinksOf(pages)
  /\ langIdx' = langIdx + 1
  /\ pc' = "langs"
  /\ UNCHANGED << lang, navigation, dynamicPageResolvers, pages, i, error, writes, fetches,
                  customContentApiEndpoints, langs >>
  /\ UNCHANGED << navVars, mdcVars, fnVars >>

\* buildPages has returned: its pages are pushed to pageLinks
LangFinish ==
  /\ pc = "returned"
  /\ pageLinks' = pageLinks \o pageLinksOf(pages)
  /\ langIdx' = langIdx + 1
  /\ pc' = "langs"
  /\ UNCHANGED << lang, navigation, dynamicPageResolvers, pages, i, error, writes, fetches,
                  customContentApiEndpoints, langs >>
  /\ UNCHANGED << navVars, mdcVars, fnVars >>

\* after the last language the site index is written
GenFinish ==
  /\ pc = "langs"
  /\ langIdx = Len(langs)
  /\ writes' = Append(writes,
       [file |-> dumpFilePath("index", "md"),
        content |-> Str(Join(pageLinks, "\n")), lang |-> "", page |-> 0])
  /\ pc' = "done"
  /\ UNCHANGED << lang, navigation, dynamicPageResolvers, pages, i, error, fetches,
                  customContentApiEndpoints, langs, langIdx, pageLinks >>
  /\ UNCHANGED << navVars, mdcVars, fnVars >>

InitGen ==
  /\ pc = "start"
  /\ lang = ""
  /\ navigation = << >>
  /\ dynamicPageResolvers = [n \in {} |-> << >>]
  /\ pages = << >>
  /\ i = 0
  /\ error = NoError
  /\ writes = << >>
  /\ fetches = << >>
  /\ customContentApiEndpoints \in EndpointOptions
  /\ langs = << >>
  /\ langIdx = 0
  /\ pageLinks = << >>
  /\ navPc = "idle"
  /\ pageList = << >>
  /\ index = 0
  /\ navigationTmp = << >>
  /\ parent = NoParent
  /\ navigationValue = << >>
  /\ homePage = NoHome
  /\ pagesValue = {}
  /\ mdcContent = NoContent("undefined")
  /\ mdcDef = NoDef
  /\ mdcResult = NotCalled
  /\ FnIdle

NextGen ==
  \/ GenStart
  \/ LangStart
  \/ BuildPagesExpand
  \/ ProcessPage
  \/ BuildPagesReturn
  \/ LangFinish
  \/ GenFinish

SpecGen == InitGen /\ [][NextGen]_vars

(***************************************************************************)
(* useHcNavigation: _loadNavigation                                        *)
(***************************************************************************)
HcPage(id, path, label) == [id |-> id, path |-> path, label |-> label, sort |-> 0, show |-> "always"]

\* the navigation document of a language: the root, then pages in path order
RootPage == HcPage(1, "/en", "Home")
SortedPages ==
  << HcPage(2, "/en/a", "A"),
     HcPage(3, "/en/a/x", "X"),
     HcPage(4, "/en/a/x/y", "Y"),
     HcPage(5, "/en/a/xy", "XY"),
     HcPage(6, "/en/ab", "AB"),
     HcPage(7, "/en/b", "B"),
     HcPage(8, "/en/b/z", "Z") >>

\* the pages of SortedPages at the positions of keep, in order
RECURSIVE Pick(_, _)
Pick(k, keep) ==
  IF k > Len(SortedPages) THEN << >>
  ELSE (IF k \in keep THEN << SortedPages[k] >> ELSE << >>) \o Pick(k + 1, keep)

PageLists ==
  {<< RootPage >> \o Pick(1, keep) :
     keep \in {K \in SUBSET (1..Len(SortedPages)) : Cardinality(K) <= MaxNavPages}}

\* the navigation document is missing: _pageList.value is null
NoPageList == << >>

NavigationItem(page) ==
  [pageId |-> page.id, path |-> page.path, label |-> page.label, sort |-> page.sort,
   show |-> page.show, hasChildren |-> FALSE, children |-> << >>]

hasChild(page, next) ==
  /\ next.path # page.path
  /\ Len(next.path) > Len(page.path)
  /\ Includes(next.path, page.path)

isFirstLevel(page) == Len(Split(page.path, "/")) = 3

\* _navigation.findIndex(n => n.pageId === id), 1-based, 0 for -1
RECURSIVE findIndexFrom(_, _, _)
findIndexFrom(nav, id, k) ==
  IF k > Len(nav) THEN 0
  ELSE IF nav[k].pageId = id THEN k ELSE findIndexFrom(nav, id, k + 1)

\* parent.children.push(item), with the array created on the first push
pushChild(node, item) ==
  [node EXCEPT !.hasChildren = TRUE, !.children = Append(node.children, item)]

\* the document is missing: the state is emptied
LoadNothing ==
  /\ navPc = "load"
  /\ pageList = NoPageList
  /\ navigationValue' = << >>
  /\ pagesValue' = {}
  /\ navPc' = "done"
  /\ UNCHANGED << pageList, index, navigationTmp, parent, homePage >>
  /\ UNCHANGED << bpVars, genVars, mdcVars, fnVars >>

\* home page and pages are set, the loop is about to start
LoadBegin ==
  /\ navPc = "load"
  /\ pageList # NoPageList
  /\ homePage' = [pageId |-> pageList[1].id, path |-> pageList[1].path]
  /\ pagesValue' = pagesValue \cup {pageList[k].id : k \in 1..Len(pageList)}
  /\ navigationTmp' = << >>
  /\ parent' = NoParent
  /\ index' = 1
  /\ navPc' = "loop"
  /\ UNCHANGED << pageList, navigationValue >>
  /\ UNCHANGED << bpVars, genVars, mdcVars, fnVars >>

\* one iteration of the loop.  The parent cursor is null, the object stored
\* at _navigation[idx] ("top"), or an object no array element refers to
\* ("detached": findIndex returned -1, and _navigation[-1] is not an element)
LoadStep ==
  /\ navPc = "loop"
  /\ index < Len(pageList)
  /\ LET page == pageList[index + 1]
         hasNext == index < Len(pageList) /\ index + 2 <= Len(pageList)
         cursor == IF isFirstLevel(page) THEN NoParent ELSE parent
         item == NavigationItem(page)
         pushedNav ==
           CASE cursor.kind = "null" -> Append(navigationTmp, item)
             [] cursor.kind = "top" ->
                  [navigationTmp EXCEPT ![cursor.idx] = pushChild(@, item)]
             [] OTHER -> navigationTmp
         pushedCursor ==
           IF cursor.kind = "null" THEN cursor
           ELSE [cursor EXCEPT !.node = pushChild(@, item)]
         becomesParent == IF hasNext THEN hasChild(page, pageList[index + 2]) ELSE FALSE
         parentIndex == findIndexFrom(pushedNav, page.id, 1)
     IN  /\ navigationTmp' =
              IF becomesParent /\ parentIndex # 0
              THEN [pushedNav EXCEPT ![parentIndex] = item]
              ELSE pushedNav
         /\ parent' =
              IF becomesParent
              THEN IF parentIndex # 0
                   THEN [kind |-> "top", idx |-> parentIndex, node |-> item]
                   ELSE [kind |-> "detached", idx |-> 0, node |-> item]
              ELSE pushedCursor
  /\ index' = index + 1
  /\ UNCHANGED << navPc, pageList, navigationValue, homePage, pagesValue >>
  /\ UNCHANGED << bpVars, genVars, mdcVars, fnVars >>

\* navigation.value = _navigation
LoadEnd ==
  /\ navPc = "loop"
  /\ index >= Len(pageList)
  /\ navigationValue' = navigationTmp
  /\ navPc' = "done"
  /\ UNCHANGED << pageList, index, navigationTmp, parent, homePage, pagesValue >>
  /\ UNCHANGED << bpVars, genVars, mdcVars, fnVars >>

InitNav ==
  /\ navPc = "load"
  /\ pageList \in PageLists \cup {NoPageList}
  /\ index = 0
  /\ navigationTmp = << >>
  /\ parent = NoParent
  /\ navigationValue \in {<< >>, << NavigationItem(HcPage(9, "/en/old", "Old")) >>}
  /\ homePage = NoHome
  /\ pagesValue \in {{}, {9}}
  /\ pc = "idle"
  /\ lang = ""
  /\ navigation = << >>
  /\ dynamicPageResolvers = [n \in {} |-> << >>]
  /\ pages = << >>
  /\ i = 0
  /\ error = NoError
  /\ writes = << >>
  /\ fetches = << >>
  /\ customContentApiEndpoints = << >>
  /\ langs = << >>
  /\ langIdx = 0
  /\ pageLinks = << >>
  /\ mdcContent = NoContent("undefined")
  /\ mdcDef = NoDef
  /\ mdcResult = NotCalled
  /\ FnIdle

NextNav == LoadNothing \/ LoadBegin \/ LoadStep \/ LoadEnd

SpecNav == InitNav /\ [][NextNav]_vars

(***************************************************************************)
(* json2mdc called on any content                                          *)
(***************************************************************************)
TextBlock == RawBlock("Hello")
SessionBlock ==
  Component("SessionCard",
            << Prop("id", Num("12")), Prop("open", Bool("true")),
               Prop("code", Str("12abc")), Prop("tags", Obj("[\"a\"]")) >>,
            << >>)
GridBlock == Component("Grid", << >>, << TitleBlock, TextBlock >>)
SectionBlock ==
  Component("SessionList", << Prop("title", Str("Talks")) >>, << GridBlock, SessionBlock >>)

BlockPool == {TextBlock, TitleBlock, SessionBlock, GridBlock, SectionBlock}
BlockLists == SeqsUpTo(BlockPool, MaxBlocks)

ContentStates == {"published", "draft", "archived"}

MdcContents ==
  {NoContent("undefined"), NoContent("null")}
  \cup {Content(st, bs) : st \in ContentStates, bs \in BlockLists}

MdcDefs == {NoDef, Def("c", Str("s")), Def("c", Undefined)}

Json2mdcCall ==
  /\ mdcResult = NotCalled
  /\ mdcResult' = json2mdc(mdcContent, mdcDef)
  /\ UNCHANGED << mdcContent, mdcDef >>
  /\ UNCHANGED << bpVars, genVars, navVars, fnVars >>

InitMdc ==
  /\ mdcContent \in MdcContents
  /\ mdcDef \in MdcDefs
  /\ mdcResult = NotCalled
  /\ FnIdle
  /\ navPc = "idle"
  /\ pageList = << >>
  /\ index = 0
  /\ navigationTmp = << >>
  /\ parent = NoParent
  /\ navigationValue = << >>
  /\ homePage = NoHome
  /\ pagesValue = {}
  /\ pc = "idle"
  /\ lang = ""
  /\ navigation = << >>
  /\ dynamicPageResolvers = [n \in {} |-> << >>]
  /\ pages = << >>
  /\ i = 0
  /\ error = NoError
  /\ writes = << >>
  /\ fetches = << >>
  /\ customContentApiEndpoints = << >>
  /\ langs = << >>
  /\ langIdx = 0
  /\ pageLinks = << >>

NextMdc == Json2mdcCall

SpecMdc == InitMdc /\ [][NextMdc]_vars

(***************************************************************************)
(* processBlock called on any block at any depth                           *)
(***************************************************************************)
\* the generation pipeline, the navigation and json2mdc are not running
PipelineIdle ==
  /\ pc = "idle"
  /\ lang = ""
  /\ navigation = << >>
  /\ dynamicPageResolvers = [n \in {} |-> << >>]
  /\ pages = << >>
  /\ i = 0
  /\ error = NoError
  /\ writes = << >>
  /\ fetches = << >>
  /\ customContentApiEndpoints = << >>
  /\ langs = << >>
  /\ langIdx = 0
  /\ pageLinks = << >>
  /\ navPc = "idle"
  /\ pageList = << >>
  /\ index = 0
  /\ navigationTmp = << >>
  /\ parent = NoParent
  /\ navigationValue = << >>
  /\ homePage = NoHome
  /\ pagesValue = {}
  /\ mdcContent = NoContent("undefined")
  /\ mdcDef = NoDef
  /\ mdcResult = NotCalled

\* values a property of block.data.props can have
PropValues ==
  {Bool("true"), Bool("false"), Num("12"), Num("-3"), Num("1.5"),
   Str("true"), Str("False"), Str("12"), Str("12abc"), Str("0x"), Str("abc"),
   Str("a b"), Str(""), Obj("[\"a\"]"), Obj("{\"a\":1}"), Null}

PropBlocks == {Component("Card", << Prop("k", val) >>, << >>) : val \in PropValues}

PlainCard == Component("Card", << >>, << >>)
TwoProps ==
  Component("Card", << Prop("title", Str("Talks")), Prop("open", Bool("true")) >>, << >>)
Sessions == Component("Sessions", << >>, << TextBlock >>)
Deep == Component("Page", << >>, << SectionBlock, PlainCard >>)

BlkPool == BlockPool \cup PropBlocks \cup {PlainCard, TwoProps, Sessions, Deep}

ProcessBlockCall ==
  /\ fnPc = "call"
  /\ fnPc' = "done"
  /\ blkPropsPart' = (IF blkBlock.type = Undefined /\ blkBlock.text # ""
                      THEN "" ELSE processBlockProps(blkBlock))
  /\ blkLines' = processBlock(blkBlock, blkDepth)
  /\ UNCHANGED << blkBlock, blkDepth, rieVars, rpVars >>
  /\ UNCHANGED << bpVars, genVars, navVars, mdcVars >>

InitBlk ==
  /\ PipelineIdle
  /\ fnPc = "call"
  /\ blkBlock \in BlkPool
  /\ blkDepth \in 0..MaxDepth
  /\ blkPropsPart = ""
  /\ blkLines = << >>
  /\ rieInput = ""
  /\ rieEntityName = ""
  /\ rieEntity = [f \in {} |-> ""]
  /\ rieResult = ""
  /\ rpInput = [t |-> "undefined", v |-> "", entries |-> << >>]
  /\ rpValues = [f \in {} |-> ""]
  /\ rpResult = Undefined

NextBlk == ProcessBlockCall

SpecBlk == InitBlk /\ [][NextBlk]_vars

(***************************************************************************)
(* resolveInputWithEntity called on any input                              *)
(***************************************************************************)
RieInputs ==
  {"", "plain", "/en/n", "c.s", ":c", ":c.", ":c.s", "/en/:c.s", "/en/2.:c.s/1.d",
   ":c.l", "a :c.s b :c.s", ":c.s-:c.l", ":c.l (:c.sx)", ":c.sx", ":c.sx :c.s",
   ":c.s :c.sx", "/:c.s/:c.sx", ":r.s", ":r.l of :r.s"}

RieEntities == {e.fields : e \in EntityPool} \cup {[s |-> "x", sx |-> "", l |-> "X y"]}

ResolveCall ==
  /\ fnPc = "call"
  /\ fnPc' = "done"
  /\ rieResult' = resolveInputWithEntity(rieInput, rieEntityName, rieEntity)
  /\ UNCHANGED << rieInput, rieEntityName, rieEntity, blkVars, rpVars >>
  /\ UNCHANGED << bpVars, genVars, navVars, mdcVars >>

InitRie ==
  /\ PipelineIdle
  /\ fnPc = "call"
  /\ rieInput \in RieInputs
  /\ rieEntityName \in {"c", "r"}
  /\ rieEntity \in RieEntities
  /\ rieResult = ""
  /\ blkBlock = RawBlock("")
  /\ blkDepth = 0
  /\ blkPropsPart = ""
  /\ blkLines = << >>
  /\ rpInput = [t |-> "undefined", v |-> "", entries |-> << >>]
  /\ rpValues = [f \in {} |-> ""]
  /\ rpResult = Undefined

NextRie == ResolveCall

SpecRie == InitRie /\ [][NextRie]_vars

(***************************************************************************)
(* resolvePlaceholders (base/modules/generate-content) called on any input *)
(***************************************************************************)
\* the input argument: a string, undefined, or a mapping given by its
\* entries in key order
RpStr(s) == [t |-> "str", v |-> s, entries |-> << >>]
RpMap(entries) == [t |-> "obj", v |-> "", entries |-> entries]

\* the text between the braces of a match of /{(\w+\.?)+\w+}/: words
\* separated by single dots, two characters at least
IsTokenPath(inner) ==
  /\ Len(inner) >= 2
  /\ Ch(inner, 1) \in WordChars
  /\ Ch(inner, Len(inner)) \in WordChars
  /\ ~Includes(inner, "..")

\* input.match(/{(\w+\.?)+\w+}/gim) || []
RECURSIVE TokenMatchesFrom(_, _)
TokenMatchesFrom(s, p) ==
  IF p > Len(s) THEN << >>
  ELSE LET e == RunEnd(s, p + 1, WordChars \cup {"."})
       IN  IF Ch(s, p) = "{" /\ e < Len(s) /\ Ch(s, e + 1) = "}"
              /\ IsTokenPath(SubSeq(s, p + 1, e))
           THEN << SubSeq(s, p, e + 1) >> \o TokenMatchesFrom(s, e + 2)
           ELSE TokenMatchesFrom(s, p + 1)

\* get(values, path, '') as replaceAll converts it; values is given by its
\* leaf paths, and a path that stops at an inner object reads as that object
GetOrEmpty(values, path) ==
  IF path \in DOMAIN values THEN values[path]
  ELSE IF \E k \in DOMAIN values : StartsWith(k, path \o ".") THEN "[object Object]"
  ELSE ""

RECURSIVE replaceTokens(_, _, _)
replaceTokens(placeholders, input, values) ==
  IF placeholders = << >> THEN input
  ELSE replaceTokens(Tail(placeholders),
         ReplaceAll(input, placeholders[1],
                    GetOrEmpty(values, SubSeq(placeholders[1], 2, Len(placeholders[1]) - 1))),
         values)

\* replaceInString(input = ''): an undefined input reads as ''
replaceInString(input, values) ==
  LET text == IF input = Undefined THEN "" ELSE input.v
  IN  replaceTokens(TokenMatchesFrom(text, 1), text, values)

\* a reduce that keeps the keys whose value is empty
RECURSIVE queryReduceKeepEmpty(_, _, _)
queryReduceKeepEmpty(entries, acc, values) ==
  IF entries = << >> THEN acc
  ELSE queryReduceKeepEmpty(Tail(entries),
         acc \o (IF acc # "" THEN "&" ELSE "?") \o entries[1].key \o "="
             \o replaceInString(entries[1].value, values),
         values)

\* the reduce over Object.entries(input)
RECURSIVE queryReduce(_, _, _)
queryReduce(entries, acc, values) ==
  IF entries = << >> THEN acc
  ELSE LET replaced == replaceInString(entries[1].value, values)
       IN  queryReduce(Tail(entries),
             IF replaced = "" THEN acc
             ELSE acc \o (IF acc # "" THEN "&" ELSE "?") \o entries[1].key \o "="
                      \o replaced,
             values)

resolvePlaceholders(input, values) ==
  IF input.t = "obj" THEN Str(queryReduce(input.entries, "", values))
  ELSE IF input.t = "str" /\ input.v # "" THEN Str(replaceInString(Str(input.v), values))
  ELSE IF input.t = "str" THEN Str(input.v)
  ELSE Undefined

ParamKeys == {"lang", "q", "p"}
ParamTemplates ==
  {Str("{lang}"), Str("{page.path}"), Str("{missing}"), Str("{page.id}"), Str("x"),
   Str(""), Str("{a}"), Str("{lang}-{lang}"), Str("{page}"), Undefined}

\* the entries of a mapping: at most MaxParams keys, each key once
ParamLists ==
  {q \in SeqsUpTo({Prop(k, t) : k \in ParamKeys, t \in ParamTemplates}, MaxParams) :
     \A a, b \in 1..Len(q) : a # b => q[a].key # q[b].key}

RpInputs ==
  {RpMap(q) : q \in ParamLists}
  \cup {RpStr(""), RpStr("/navigation/{lang}"), RpStr("/contents{page.path}"),
        [t |-> "undefined", v |-> "", entries |-> << >>]}

RpValues ==
  {[f \in {} |-> ""],
   "lang" :> "",
   ("lang" :> "en") @@ ("page.path" :> "/en/n") @@ ("a" :> "1")}

ResolvePlaceholdersCall ==
  /\ fnPc = "call"
  /\ fnPc' = "done"
  /\ rpResult' = resolvePlaceholders(rpInput, rpValues)
  /\ UNCHANGED << rpInput, rpValues, blkVars, rieVars >>
  /\ UNCHANGED << bpVars, genVars, navVars, mdcVars >>

InitRp ==
  /\ PipelineIdle
  /\ fnPc = "call"
  /\ rpInput \in RpInputs
  /\ rpValues \in RpValues
  /\ rpResult = Undefined
  /\ blkBlock = RawBlock("")
  /\ blkDepth = 0
  /\ blkPropsPart = ""
  /\ blkLines = << >>
  /\ rieInput = ""
  /\ rieEntityName = ""
  /\ rieEntity = [f \in {} |-> ""]
  /\ rieResult = ""

NextRp == ResolvePlaceholdersCall

SpecRp == InitRp /\ [][NextRp]_vars

(***************************************************************************)
(* Properties of buildPages and generateContent                            *)
(***************************************************************************)
Range(q) == {q[k] : k \in 1..Len(q)}

EndsWith(s, t) == Len(t) <= Len(s) /\ SubSeq(s, Len(s) - Len(t) + 1, Len(s)) = t

\* the markup files written for page k of the language being generated
MdFiles(k) ==
  {w.file : w \in {x \in Range(writes) :
                     x.lang = lang /\ x.page = k /\ EndsWith(x.file, ".md")}}

\* number of markup writes and of content fetches for page k
MdWriteCount(k) ==
  Cardinality({n \in 1..Len(writes) :
     writes[n].lang = lang /\ writes[n].page = k /\ EndsWith(writes[n].file, ".md")})

FetchCount(k) ==
  Cardinality({n \in 1..Len(fetches) : fetches[n].lang = lang /\ fetches[n].page = k})

Unpublished(content) == content.t # "obj" \/ content.state # "published"

\* C1: a page whose fetched content is absent or not published gets no
\* markup file, and no error is raised for it
C1_NoFileWhenUnpublished ==
  \A f \in Range(fetches) :
    (f.lang = lang /\ Unpublished(f.response)) =>
       /\ MdFiles(f.page) = {}
       /\ ~(error.kind = "TypeError" /\ i + 1 = f.page)

\* the characters a page path may be made of, as the claims list them
AllowedPathChars ==
  {"/", ":", ".", "-", "_"} \cup LowerChars \cup DigitChars

HasBadChar(path) ==
  path = "" \/ \E k \in 1..Len(path) : Ch(path, k) \notin AllowedPathChars

\* the state after an abort: buildPages threw at the page that was reached;
\* nothing is fetched or written for that page or a later one, what
\* was written before stays, the site index is not written and the run stops
C2_AbortState ==
  error.kind = "Error" =>
    /\ pc = "error"
    /\ i < Len(pages)
    /\ HasBadChar(pages[i + 1].path)
    /\ \A f \in Range(fetches) : f.lang = lang => f.page <= i
    /\ \A w \in Range(writes) : (w.lang = lang /\ w.page # 0) => w.page <= i
    /\ \A k \in 1..i : MdFiles(k) # {}
    /\ \A w \in Range(writes) : w.file # "content/index.md"

C2_AbortStep ==
  /\ (pc = "write" /\ i < Len(pages) /\ HasBadChar(pages[i + 1].path))
       => (pc' = "error" /\ error'.kind = "Error" /\ error'.path = pages[i + 1].path)
  /\ error'.kind = "Error" => (writes' = writes /\ fetches' = fetches)
  /\ pc = "error" => UNCHANGED vars

\* C2: in every run an invalid path of the k-th page aborts buildPages at
\* that page: the pages before it keep their files, nothing is fetched or
\* written from it on, no site index is written, and no step follows
C2_InvalidPathAborts == [](C2_AbortState) /\ [][C2_AbortStep]_vars

C2_Witness ==
  /\ error.kind = "Error"
  /\ i >= 1
  /\ langIdx >= 1
  /\ \E w \in Range(writes) : w.lang # lang /\ w.page >= 1 /\ EndsWith(w.file, ".md")

\* C3: the validation error is raised for a page exactly when its path is
\* empty or has a character outside the allowed set, and the message holds
\* the path
C3_ValidationExactly ==
  /\ error.kind = "Error" =>
       /\ i < Len(pages)
       /\ HasBadChar(pages[i + 1].path)
       /\ error.path = pages[i + 1].path
       /\ Includes(error.message, "Page path " \o pages[i + 1].path \o " contains")
  /\ error.kind = "TypeError" => ~HasBadChar(pages[i + 1].path)
  /\ pc \in {"write", "returned", "error"} =>
       \A k \in 1..i : ~HasBadChar(pages[k].path)
  /\ (pc = "write" /\ i < Len(pages) /\ HasBadChar(pages[i + 1].path)) =>
       (ENABLED PageThrows /\ \A c \in PageContents : ~ENABLED PageDone(c))

C3_Witness ==
  /\ error.kind = "Error"
  /\ i >= 1
  /\ \E k \in 1..i : Includes(pages[k].path, "_") /\ Includes(pages[k].path, "-")

\* the substitution the claims describe: every placeholder :name.f of the
\* input becomes the value of field f, everything else stays
RECURSIVE SubstituteFrom(_, _, _, _)
SubstituteFrom(s, p, name, fields) ==
  IF p > Len(s) THEN ""
  ELSE LET e == PlaceholderEnd(s, p)
           f == SubSeq(s, p + Len(name) + 2, e)
       IN  IF e # 0 /\ SubSeq(s, p, p + Len(name) + 1) = ":" \o name \o "."
              /\ f \in DOMAIN fields
           THEN fields[f] \o SubstituteFrom(s, e + 1, name, fields)
           ELSE Ch(s, p) \o SubstituteFrom(s, p + 1, name, fields)

Substituted(s, name, fields) == SubstituteFrom(s, 1, name, fields)

\* what a page is, apart from what the second loop adds to it
Core(page) ==
  [id |-> page.id, path |-> page.path, sortedPath |-> page.sortedPath,
   label |-> page.label, entity |-> page.entity]

IsDynamic(entry) == Includes(entry.path, ":")
HasResolver(entry, resolvers) ==
  IsDynamic(entry) /\ getEntityDefFromPath(entry.path).name \in DOMAIN resolvers

RECURSIVE ExpectedWith(_, _, _)
ExpectedWith(entry, name, entities) ==
  IF entities = << >> THEN << >>
  ELSE << [id |-> entry.id,
           path |-> Substituted(entry.path, name, entities[1].fields),
           sortedPath |-> Substituted(entry.sortedPath, name, entities[1].fields),
           label |-> Substituted(entry.label, name, entities[1].fields),
           entity |-> Bound(name, entities[1])] >>
       \o ExpectedWith(entry, name, Tail(entities))

RECURSIVE ExpectedPages(_, _)
ExpectedPages(nav, resolvers) ==
  IF nav = << >> THEN << >>
  ELSE (IF HasResolver(nav[1], resolvers)
        THEN LET name == getEntityDefFromPath(nav[1].path).name
             IN  ExpectedWith(nav[1], name, resolvers[name])
        ELSE << Core(nav[1]) >>)
       \o ExpectedPages(Tail(nav), resolvers)

RECURSIVE Cores(_)
Cores(ps) == IF ps = << >> THEN << >> ELSE << Core(ps[1]) >> \o Cores(Tail(ps))

\* C4: buildPages returns the entries in order, every resolved dynamic entry
\* replaced at its place by one page per entity, in entity order, with the
\* entity bound and its field values substituted into path, sortedPath, label
C4_ExpansionInOrder ==
  pc = "returned" => Cores(pages) = ExpectedPages(navigation, dynamicPageResolvers)

\* C5: when buildPages is called for a language, every endpoint of
\* customContentApiEndpoints that declares a dynamicPageResolver is
\* registered under its entityName
C5_ResolversRegistered ==
  pc \in {"expand", "write", "returned"} =>
    \A k \in 1..Len(customContentApiEndpoints) :
      customContentApiEndpoints[k].dynamicPageResolver.given =>
        customContentApiEndpoints[k].dynamicPageResolver.entityName
          \in DOMAIN dynamicPageResolvers

\* number of pages the entries before entry k contribute
RECURSIVE PagesBefore(_, _, _)
PagesBefore(nav, k, resolvers) ==
  IF k <= 1 THEN 0
  ELSE PagesBefore(nav, k - 1, resolvers)
       + (IF HasResolver(nav[k - 1], resolvers)
          THEN Len(resolvers[getEntityDefFromPath(nav[k - 1].path).name])
          ELSE 1)

\* the sortedPath of the templates of the model with every ':entity.field'
\* rewritten to '__entity.field__'
RewrittenSortedPath(entry) ==
  CASE entry.id = 5 -> "/" \o lang \o "/2.__c.s__"
    [] entry.id = 6 -> "/" \o lang \o "/2.__c.s__/1.d"
    [] entry.id = 7 -> "/" \o lang \o "/3.x/1.__c.s__"
    [] entry.id = 11 -> "/" \o lang \o "/6.__r.s__"
    [] OTHER -> entry.sortedPath

\* a template without resolver is kept as one page, unchanged and marked,
\* raises no error, and is fetched and written once, at one of the files
TemplateKept(files(_)) ==
  pc \in {"write", "returned", "error"} =>
    /\ Len(pages) = PagesBefore(navigation, Len(navigation) + 1, dynamicPageResolvers)
    /\ \A k \in 1..Len(navigation) :
         (IsDynamic(navigation[k]) /\ ~HasResolver(navigation[k], dynamicPageResolvers)) =>
           LET p == PagesBefore(navigation, k, dynamicPageResolvers) + 1
           IN  /\ Core(pages[p]) = Core(navigation[k])
               /\ pages[p].hasDynamicContent
               /\ ~(pc = "error" /\ i + 1 = p)
               /\ p <= i =>
                    /\ FetchCount(p) = 1
                    /\ MdWriteCount(p) = 1
                    /\ MdFiles(p) \subseteq files(navigation[k])

AtRewrittenPath(entry) == {"content" \o RewrittenSortedPath(entry) \o ".md"}

AtRewrittenPathOrIndex(entry) ==
  {"content" \o RewrittenSortedPath(entry) \o ".md",
   "content" \o RewrittenSortedPath(entry) \o "/0.index.md"}

\* C6, literal reading: the content of a template without resolver is generated
\* once at the rewritten sortedPath
C6_TemplateAtRewrittenPath == TemplateKept(AtRewrittenPath)

\* C6: a template without resolver is kept as one marked page and
\* its content is fetched and written once, at the rewritten sortedPath or,
\* when the page is a directory page, at the 0.index document under it
C6_TemplateKeptOnce == TemplateKept(AtRewrittenPathOrIndex)

C6_Witness ==
  /\ pc = "returned"
  /\ Len(pages) = 2
  /\ pages[1].hasDynamicContent
  /\ pages[1].path = "/en/:c.s"
  /\ FetchCount(1) = 1
  /\ MdFiles(1) = {"content/en/2.__c.s__/0.index.md"}

\* the next sortedPath is the sortedPath and one more segment
OneMoreSegment(next, sortedPath) ==
  /\ StartsWith(next, sortedPath \o "/")
  /\ Len(next) > Len(sortedPath) + 1
  /\ ~Includes(SubSeq(next, Len(sortedPath) + 2, Len(next)), "/")

StrictExtension(next, sortedPath) ==
  Len(next) > Len(sortedPath) /\ StartsWith(next, sortedPath)

\* C9: without dynamic entries, a page followed by an entry one segment
\* below it is written at <sortedPath>/0.index and not at <sortedPath>; a
\* page whose next entry does not extend its sortedPath, and the last page,
\* are written at their own sortedPath
C9_DirectoryPages ==
  (pc \in {"write", "returned", "error"}
   /\ \A k \in 1..Len(navigation) : ~IsDynamic(navigation[k])) =>
    \A k \in 1..i :
      LET sortedPath == pages[k].sortedPath
      IN  IF k < Len(navigation)
             /\ OneMoreSegment(navigation[k + 1].sortedPath, sortedPath)
          THEN MdFiles(k) = {"content" \o sortedPath \o "/0.index.md"}
          ELSE IF k = Len(navigation)
                  \/ ~StrictExtension(navigation[k + 1].sortedPath, sortedPath)
               THEN MdFiles(k) = {"content" \o sortedPath \o ".md"}
               ELSE TRUE

(***************************************************************************)
(* Properties of _loadNavigation                                           *)
(***************************************************************************)
\* the path without its last segment
RECURSIVE ParentPathFrom(_, _)
ParentPathFrom(path, k) ==
  IF k < 1 THEN ""
  ELSE IF Ch(path, k) = "/" THEN SubSeq(path, 1, k - 1) ELSE ParentPathFrom(path, k - 1)

ParentPath(path) == ParentPathFrom(path, Len(path))

Paths(q) == {q[k].path : k \in 1..Len(q)}

IsDescendant(path, ancestor) == StartsWith(path, ancestor \o "/")

\* the root comes first, every other page has its parent page in the list,
\* and the descendants of a page are contiguous and immediately follow it
SortPrecondition(list) ==
  /\ Len(list) >= 1
  /\ \A k \in 2..Len(list) :
       /\ IsDescendant(list[k].path, list[1].path)
       /\ ParentPath(list[k].path) \in Paths(list)
  /\ \A a, b, c \in 1..Len(list) :
       (a < b /\ b < c /\ IsDescendant(list[c].path, list[a].path))
         => IsDescendant(list[b].path, list[a].path)
  /\ \A a, b \in 1..Len(list) :
       IsDescendant(list[b].path, list[a].path) => a < b

\* first-level pages, each immediately followed by its direct children
TwoLevels(list) ==
  /\ SortPrecondition(list)
  /\ \A k \in 2..Len(list) :
       isFirstLevel(list[k]) \/ ParentPath(ParentPath(list[k].path)) = list[1].path

\* the paths of the pages of list whose parent page has path parentPath
RECURSIVE ChildPaths(_, _)
ChildPaths(list, parentPath) ==
  IF list = << >> THEN << >>
  ELSE (IF ParentPath(list[1].path) = parentPath THEN << list[1].path >> ELSE << >>)
       \o ChildPaths(Tail(list), parentPath)

RECURSIVE NodePaths(_)
NodePaths(nodes) ==
  IF nodes = << >> THEN << >> ELSE << nodes[1].path >> \o NodePaths(Tail(nodes))

\* C7: for a two-level list the forest is the first-level pages in order,
\* each with its direct children in order, and the root is no node
C7_TwoLevelForest ==
  (navPc = "done" /\ pageList # NoPageList /\ TwoLevels(pageList)) =>
    /\ NodePaths(navigationValue) = ChildPaths(pageList, pageList[1].path)
    /\ \A k \in 1..Len(navigationValue) :
         NodePaths(navigationValue[k].children)
           = ChildPaths(pageList, navigationValue[k].path)

\* the nodes of the forest: the top level and, below every node, its children
RECURSIVE ForestNodes(_)
ForestNodes(nodes) ==
  IF nodes = << >> THEN << >>
  ELSE << nodes[1] >> \o ForestNodes(nodes[1].children) \o ForestNodes(Tail(nodes))

Occurrences(nodes, path) ==
  Cardinality({k \in 1..Len(nodes) : nodes[k].path = path})

\* C8: under the sort precondition every page but the root is exactly once
\* in the forest, at the top level when it is first-level and otherwise
\* among the children of the node of its parent page
C8_EveryPageInForest ==
  (navPc = "done" /\ pageList # NoPageList /\ SortPrecondition(pageList)) =>
    LET nodes == ForestNodes(navigationValue)
    IN  \A k \in 2..Len(pageList) :
          /\ Occurrences(nodes, pageList[k].path) = 1
          /\ IF isFirstLevel(pageList[k])
             THEN Occurrences(navigationValue, pageList[k].path) = 1
             ELSE \E n \in 1..Len(nodes) :
                    /\ nodes[n].path = ParentPath(pageList[k].path)
                    /\ Occurrences(nodes[n].children, pageList[k].path) = 1

\* next is longer than page and contains its path as text, without being
\* that path followed by '/' and further segments
TextualSibling(page, next) ==
  /\ Len(next.path) > Len(page.path)
  /\ Includes(next.path, page.path)
  /\ ~StartsWith(next.path, page.path \o "/")

\* one iteration for a page whose next page is such a sibling leaves the
\* parent cursor on the parent of the page
C16_Step ==
  (navPc = "loop" /\ index' = index + 1 /\ index + 2 <= Len(pageList)
   /\ TextualSibling(pageList[index + 1], pageList[index + 2])) =>
    /\ parent'.node.pageId # pageList[index + 1].id
    /\ parent'.kind = (IF isFirstLevel(pageList[index + 1]) THEN "null" ELSE parent.kind)
    /\ parent'.kind # "null" => parent'.node.pageId = parent.node.pageId

\* C16: a page is never nested under a preceding sibling: when the next
\* page's path only contains the path of the current page as text, the
\* current page does not become the parent cursor, and the next page is
\* attached to the parent of the current page
C16_NoSiblingNesting == [][C16_Step]_vars

(***************************************************************************)
(* Properties of json2mdc                                                  *)
(***************************************************************************)
\* C10: json2mdc returns undefined when the content is absent or its state
\* is not 'published', whatever the blocks and the entity definition; for
\* published content it returns a string
C10_NoOutputUnlessPublished ==
  mdcResult # NotCalled =>
    IF mdcContent.t # "obj" \/ mdcContent.state # "published"
    THEN mdcResult = Undefined
    ELSE mdcResult.t = "str"

C10_Witness ==
  /\ mdcResult = Undefined
  /\ mdcContent.t = "obj"
  /\ mdcContent.state = "draft"
  /\ Len(mdcContent.blocks) = 2
  /\ mdcDef.given

(***************************************************************************)
(* Properties of processBlock and processBlockProps                        *)
(***************************************************************************)
\* number of leading characters of s that are c
RECURSIVE LeadingRun(_, _)
LeadingRun(s, c) ==
  IF s # "" /\ Ch(s, 1) = c THEN 1 + LeadingRun(Tail(s), c) ELSE 0

\* a line without its leading spaces, and the length of its colon run
Unindented(line) == SubSeq(line, LeadingRun(line, " ") + 1, Len(line))
ColonRun(line) == LeadingRun(Unindented(line), ":")

\* a closing fence is two colons or more and nothing else; an opening fence
\* is two colons or more followed by a name
IsClosingFence(line) == ColonRun(line) >= 2 /\ ColonRun(line) = Len(Unindented(line))
IsOpeningFence(line) == ColonRun(line) >= 2 /\ ColonRun(line) < Len(Unindented(line))

\* every closing fence closes the last fence still open, with its length,
\* and no fence stays open (open: the lengths of the fences still open)
RECURSIVE FencesNested(_, _)
FencesNested(lines, open) ==
  IF lines = << >> THEN open = << >>
  ELSE IF IsClosingFence(lines[1])
       THEN /\ open # << >>
            /\ open[1] = ColonRun(lines[1])
            /\ FencesNested(Tail(lines), Tail(open))
       ELSE IF IsOpeningFence(lines[1])
            THEN FencesNested(Tail(lines), << ColonRun(lines[1]) >> \o open)
            ELSE FencesNested(Tail(lines), open)

IsComponent(block) == block.type # Undefined

\* C11: a component without children gives one line; a component with
\* children at depth D gives an opening line with D+2 colons, the lines of
\* its children in order at depth D+1, and a closing line of D+2 colons;
\* the fences of the lines are properly nested
C11_FencesMatch ==
  (fnPc = "done" /\ IsComponent(blkBlock)) =>
    IF blkBlock.children = << >>
    THEN Len(blkLines) = 1 /\ ColonRun(blkLines[1]) = 1
    ELSE LET n == Len(blkLines)
         IN  /\ n >= 3
             /\ IsOpeningFence(blkLines[1])
             /\ ColonRun(blkLines[1]) = blkDepth + 2
             /\ SubSeq(blkLines, 2, n - 1) = processChildren(blkBlock.children, blkDepth + 1)
             /\ IsClosingFence(blkLines[n])
             /\ ColonRun(blkLines[n]) = blkDepth + 2
             /\ FencesNested(blkLines, << >>)

C11_Witness ==
  /\ fnPc = "done"
  /\ blkBlock = Deep
  /\ blkDepth = 1
  /\ Len(blkLines) = 10
  /\ ColonRun(blkLines[2]) = 4
  /\ ColonRun(blkLines[3]) = 5
  /\ blkLines[10] = " :::"

\* C18: the opening or inline line of a component at depth d, and its
\* closing fence, start with exactly 2*d spaces
C18_TwoSpacesPerDepth ==
  (fnPc = "done" /\ IsComponent(blkBlock)) =>
    /\ LeadingRun(blkLines[1], " ") = 2 * blkDepth
    /\ LeadingRun(blkLines[Len(blkLines)], " ") = 2 * blkDepth

\* the component name of a line: what follows the colon run, up to the
\* brace of the properties
EmittedName(line) ==
  LET rest == SubSeq(Unindented(line), ColonRun(line) + 1, Len(Unindented(line)))
      brace == IndexOfFrom(rest, "{", 1)
  IN  IF brace = 0 THEN rest ELSE SubSeq(rest, 1, brace - 1)

\* the kebab-cased type with a leading 'session' rewritten to 'event'
AliasedName(type) ==
  LET kebab == pascalToKebab(type)
  IN  IF StartsWith(kebab, "session")
      THEN "event" \o SubSeq(kebab, Len("session") + 1, Len(kebab))
      ELSE kebab

\* C19: the name a component is emitted with is its kebab-cased type, with
\* 'event' in place of a leading 'session'
C19_SessionIsEvent ==
  (fnPc = "done" /\ IsComponent(blkBlock)) =>
    EmittedName(blkLines[1]) = AliasedName(blkBlock.type.v)

\* digits with an optional sign and an optional fraction
IsNumeric(s) ==
  LET body == IF s # "" /\ Ch(s, 1) = "-" THEN Tail(s) ELSE s
      dot == IndexOfFrom(body, ".", 1)
      int == IF dot = 0 THEN body ELSE SubSeq(body, 1, dot - 1)
      frac == IF dot = 0 THEN "0" ELSE SubSeq(body, dot + 1, Len(body))
      Digits(d) == d # "" /\ \A k \in 1..Len(d) : Ch(d, k) \in DigitChars
  IN  Digits(int) /\ Digits(frac)

\* the form the value's kind asks for: bare, single-quoted JSON, or
\* double-quoted
ExpectedProp(key, val) ==
  IF \/ val.t \in {"bool", "num"}
     \/ val.t = "str" /\ (ToLowerCase(val.v) \in {"true", "false"} \/ IsNumeric(val.v))
  THEN ":" \o key \o "=" \o val.v
  ELSE IF val.t \in {"obj", "null"}
       THEN ":" \o key \o "='" \o ToStr(val) \o "'"
       ELSE key \o "=\"" \o val.v \o "\""

RECURSIVE ExpectedProps(_)
ExpectedProps(props) ==
  IF props = << >> THEN << >>
  ELSE << ExpectedProp(props[1].key, props[1].value) >> \o ExpectedProps(Tail(props))

\* C20: every property is emitted bare when it is a boolean, a number or a
\* string that reads as one, as single-quoted JSON when it is an object or
\* array, and double-quoted otherwise; the forms are joined by single spaces
\* inside braces, and a block without properties has no braces
C20_PropForms ==
  (fnPc = "done" /\ IsComponent(blkBlock)) =>
    blkPropsPart = (IF blkBlock.props = << >> THEN ""
                    ELSE "{" \o Join(ExpectedProps(blkBlock.props), " ") \o "}")

(***************************************************************************)
(* Properties of resolveInputWithEntity                                    *)
(***************************************************************************)
\* the placeholders of the input all name the entity n
OwnPlaceholdersOnly(input, n) ==
  \A m \in Range(PlaceholderMatches(input)) : StartsWith(m, ":" \o n \o ".")

\* C12: in an input whose placeholders name the entity n, every placeholder
\* :n.f is replaced by the value of the field f of the record and the text
\* outside the placeholders stays, so an input without placeholder is
\* returned as it is; also when the text of one placeholder is a prefix of
\* another's
C12_EveryPlaceholderReplaced ==
  (fnPc = "done" /\ OwnPlaceholdersOnly(rieInput, rieEntityName)) =>
    rieResult = Substituted(rieInput, rieEntityName, rieEntity)

(***************************************************************************)
(* Properties of resolvePlaceholders                                       *)
(***************************************************************************)
\* the entries whose template resolves to a non-empty value, as k=v pairs
RECURSIVE NonEmptyPairs(_, _)
NonEmptyPairs(entries, values) ==
  IF entries = << >> THEN << >>
  ELSE LET v == replaceInString(entries[1].value, values)
       IN  (IF v = "" THEN << >> ELSE << entries[1].key \o "=" \o v >>)
           \o NonEmptyPairs(Tail(entries), values)

\* a template that is one token whose path the context does not have
IsMissingToken(template, values) ==
  /\ template # Undefined
  /\ TokenMatchesFrom(template.v, 1) = << template.v >>
  /\ \A k \in DOMAIN values :
       LET path == SubSeq(template.v, 2, Len(template.v) - 1)
       IN  k # path /\ ~StartsWith(k, path \o ".")

\* C13: for a mapping, resolvePlaceholders returns the pairs k=v of the keys
\* whose resolved value is not empty, in key order, after a '?' and separated
\* by '&'; a key whose token is missing from the context is left out, and
\* the result is empty when every key resolves empty
C13_QueryString ==
  (fnPc = "done" /\ rpInput.t = "obj") =>
    LET pairs == NonEmptyPairs(rpInput.entries, rpValues)
    IN  /\ rpResult = Str(IF pairs = << >> THEN "" ELSE "?" \o Join(pairs, "&"))
        /\ \A k \in 1..Len(rpInput.entries) :
             IsMissingToken(rpInput.entries[k].value, rpValues) =>
               ~Includes(rpResult.v, rpInput.entries[k].key \o "=")

C13_Witness ==
  /\ fnPc = "done"
  /\ rpInput.t = "obj"
  /\ Len(rpInput.entries) = 2
  /\ IsMissingToken(rpInput.entries[1].value, rpValues)
  /\ rpInput.entries[2].value = Str("{page.path}")
  /\ rpResult = Str("?p=/en/n")

(***************************************************************************)
(* Properties of the site index                                            *)
(***************************************************************************)
IndexWrites == {n \in 1..Len(writes) : writes[n].file = "content/index.md"}

\* a line of the site index for a page: its label, shown as it is when it
\* has no placeholder, and its local path
IsLineOf(line, page) ==
  /\ StartsWith(line, "- [")
  /\ EndsWith(line, "](" \o ToStr(page.localPath) \o ")")
  /\ ~Includes(page.label, ":") =>
       line = "- [" \o page.label \o "](" \o ToStr(page.localPath) \o ")"

IsPrefixOf(p, q) == Len(p) <= Len(q) /\ SubSeq(q, 1, Len(p)) = p

\* the index is written only at the end of a run, once, as the last write,
\* and it holds the lines
C14_IndexState ==
  /\ Cardinality(IndexWrites) <= 1
  /\ pc # "done" => IndexWrites = {}
  /\ pc = "done" =>
       /\ IndexWrites = {Len(writes)}
       /\ langIdx = Len(langs)
       /\ writes[Len(writes)].content = Str(Join(pageLinks, "\n"))

\* the line list only grows, and it grows by the lines of the pages that
\* buildPages returned for a language, one per page in page order
C14_IndexStep ==
  /\ IsPrefixOf(pageLinks, pageLinks')
  /\ IF pc = "returned" /\ pc' = "langs"
     THEN /\ Len(pageLinks') = Len(pageLinks) + Len(pages)
          /\ langIdx' = langIdx + 1
          /\ \A k \in 1..Len(pages) : IsLineOf(pageLinks'[Len(pageLinks) + k], pages[k])
     ELSE pageLinks' = pageLinks

\* C14: the site index is written exactly once, after the pages of all
\* languages were built; it holds one line per page that buildPages
\* returned, in language order and in page order, and the line list only
\* grows during the run
C14_SiteIndexOnce == [](C14_IndexState) /\ [][C14_IndexStep]_vars

C14_Witness ==
  /\ pc = "done"
  /\ Len(langs) = 2
  /\ Len(pageLinks) = 3
  /\ IndexWrites = {Len(writes)}
  /\ Includes(writes[Len(writes)].content.v, "\n- [News](/fr/n)")

(***************************************************************************)
(* Properties of the layout of the pages                                   *)
(***************************************************************************)
\* page k was written as the index document of a directory
WrittenAsDirectory(k) == \E f \in MdFiles(k) : EndsWith(f, "/0.index.md")

\* C15: a page of the concrete page sequence is a directory page exactly
\* when the page that follows it in that sequence has a sortedPath that is a
\* strict extension of its sortedPath
C15_DirectoryByNextPage ==
  pc \in {"write", "returned", "error"} =>
    \A k \in 1..i :
      WrittenAsDirectory(k) <=>
        (k < Len(pages) /\ StrictExtension(pages[k + 1].sortedPath, pages[k].sortedPath))

\* a path without a trailing '/0.index'
WithoutIndex(p) ==
  IF EndsWith(p, "/0.index") THEN SubSeq(p, 1, Len(p) - Len("/0.index")) ELSE p

\* a path whose last segment has lost its sort prefix 'n.'
WithoutOwnSort(p, n) ==
  LET last == SubSeq(p, Len(ParentPath(p)) + 2, Len(p))
      prefix == NumStr(n) \o "."
  IN  IF StartsWith(last, prefix)
      THEN ParentPath(p) \o "/" \o SubSeq(last, Len(prefix) + 1, Len(last))
      ELSE p

\* C17: the final localPath of a processed page is its local sorted path
\* without a trailing '/0.index' and without the sort prefix of the page's
\* own segment, at any depth
C17_FinalLocalPath ==
  pc \in {"write", "returned", "error"} =>
    \A k \in 1..i :
      pages[k].localPath =
        Str(WithoutOwnSort(WithoutIndex(pages[k].localSortedPath.v), pages[k].sort + 1))

====
